---- MODULE Spec2Model ----
(***************************************************************************)
(* A model of elt_project/assets/parsers.py: the parser registry           *)
(* (ParserFactory), the format parsers whose behaviour is decided in this  *)
(* file (CsvParser, ExcelParser, CsvToExcelConverterParser) and the        *)
(* streaming converter stream_excel_to_csv.                                *)
(*                                                                         *)
(* Each component has its own specification (SpecRegistry, SpecStream,     *)
(* SpecPath, SpecCsv, SpecSanitize); the variables of the other components *)
(* stay at their idle value.                                               *)
(***************************************************************************)
EXTENDS Integers, Sequences, FiniteSets, TLC

VARIABLES
    parsers,    \* ParserFactory._parsers: lowercased tag -> registered class
    regLog,     \* history: the successful register_parser calls, in order
    lastCall,   \* history: the last registry call, its result, the registry before it
    conv,       \* one stream_excel_to_csv call: arguments, position, handles, output
    dispatch,   \* a source path and the reader each entry point selected for it
    csv,        \* one CsvParser.parse call: the file's columns and the frame returned
    xl          \* one CsvToExcelConverterParser.parse call: table read, table written

vars == <<parsers, regLog, lastCall, conv, dispatch, csv, xl>>

(***************************************************************************)
(* Bounds                                                                  *)
(***************************************************************************)
\* register_parser calls stored after the four module-level registrations
MaxRegs == 2
\* rows of the active sheet of a workbook
MaxRows == 3
\* whitespace characters around a caller-supplied path
MaxPad == 1
\* data rows of a delimited-text file
MaxCsvRows == 4
\* characters of a text cell
MaxStrLen == 2

(***************************************************************************)
(* Text: a string is a sequence of one-character strings.                  *)
(***************************************************************************)
UpperOf == [c \in {"c", "s", "v", "j", "o", "n", "x", "l", "m", "t"} |->
              CASE c = "c" -> "C" [] c = "s" -> "S" [] c = "v" -> "V"
                [] c = "j" -> "J" [] c = "o" -> "O" [] c = "n" -> "N"
                [] c = "x" -> "X" [] c = "l" -> "L" [] c = "m" -> "M"
                [] c = "t" -> "T"]

\* str.lower() on one character: an ASCII capital maps to its small letter,
\* every other character of the alphabet to itself
LowerChar(c) ==
    IF \E l \in DOMAIN UpperOf : UpperOf[l] = c
    THEN CHOOSE l \in DOMAIN UpperOf : UpperOf[l] = c
    ELSE c

\* The sequences over S of length at most n
RECURSIVE SeqsUpTo(_, _)
SeqsUpTo(S, n) ==
    IF n = 0 THEN {<<>>}
    ELSE LET shorter == SeqsUpTo(S, n - 1)
         IN  shorter \cup {Append(q, x) : q \in {r \in shorter : Len(r) = n - 1}, x \in S}

\* str.lower()
Lower(s) == [i \in 1..Len(s) |-> LowerChar(s[i])]

(***************************************************************************)
(* Parser registry (ParserFactory)                                         *)
(***************************************************************************)
\* A callable that is not a class: a factory function returning a CsvParser
MakeParser == "MakeParser"

\* The classes of the module
Parser == "Parser"
CsvParser == "CsvParser"
PsvParser == "PsvParser"
ExcelParser == "ExcelParser"
CsvToExcelConverterParser == "CsvToExcelConverterParser"

\* The concrete parser variants: subclasses of Parser that implement parse
Variants == {CsvParser, PsvParser, ExcelParser, CsvToExcelConverterParser}

\* Classes for which issubclass(c, Parser) is true: Parser itself included
ParserSubclasses == Variants \cup {Parser}

\* Classes that keep an abstract method: calling them raises TypeError
AbstractClasses == {Parser}

\* What callers can hand to register_parser: a variant, the abstract base, a
\* class outside the hierarchy (dict), and a callable that is not a class
Constructors == {MakeParser, CsvParser, PsvParser, Parser, "dict"}

\* Whether the object is a class (issubclass raises TypeError otherwise)
IsClass(c) == c # MakeParser

NoInstance == "no_instance"

TagCsv == <<"c", "s", "v">>
TagPsv == <<"p", "s", "v">>
TagExcel == <<"e", "x", "c", "e", "l">>
TagCsvToExcel == <<"c", "s", "v", "_", "t", "o", "_", "e", "x", "c", "e", "l">>

\* The tags callers pass
Tags == { TagCsv, <<"C", "S", "V">>, <<"C", "s", "v">>,
          <<"j", "s", "o", "n">>, <<"J", "S", "O", "N">> }

\* parser_factory after the module-level registrations
InitialRegistrations ==
    << [tag |-> TagCsv, cls |-> CsvParser],
       [tag |-> TagPsv, cls |-> PsvParser],
       [tag |-> TagExcel, cls |-> ExcelParser],
       [tag |-> TagCsvToExcel, cls |-> CsvToExcelConverterParser] >>

\* The outcome of the issubclass guard of register_parser
RegisterOutcome(parser_class) ==
    IF ~IsClass(parser_class) THEN "TypeError"
    ELSE IF parser_class \notin ParserSubclasses THEN "ValueError"
    ELSE "ok"

\* The key register_parser stores under
RegisterKey(file_type) == Lower(file_type)

\* self._parsers[key] = parser_class
StoreFirstWins(reg, key, parser_class) ==
    IF key \in DOMAIN reg THEN reg
    ELSE [k \in DOMAIN reg \cup {key} |-> IF k = key THEN parser_class ELSE reg[k]]
Store(reg, key, parser_class) ==
    [k \in DOMAIN reg \cup {key} |-> IF k = key THEN parser_class ELSE reg[k]]

\* The registry after register_parser(file_type, parser_class)
RegisterParserRegistry(reg, file_type, parser_class) ==
    IF RegisterOutcome(parser_class) = "ok"
    THEN Store(reg, RegisterKey(file_type), parser_class)
    ELSE reg

\* parser_class(): the instance built, or the TypeError of an abstract class
Construct(cls) ==
    IF cls \in AbstractClasses
    THEN [outcome |-> "TypeError", variant |-> NoInstance]
    ELSE [outcome |-> "ok", variant |-> cls]

\* The result of get_parser(file_type) on registry reg
GetParserExactCase(reg, file_type) ==
    IF file_type \in DOMAIN reg
    THEN Construct(reg[file_type])
    ELSE [outcome |-> "ValueError", variant |-> NoInstance]
GetParserResult(reg, file_type) ==
    IF Lower(file_type) \in DOMAIN reg
    THEN Construct(reg[Lower(file_type)])
    ELSE [outcome |-> "ValueError", variant |-> NoInstance]

\* The registry after get_parser(file_type): the lookup is a dict.get
GetParserCaching(reg, file_type) ==
    [k \in DOMAIN reg \cup {Lower(file_type)} |->
        IF k \in DOMAIN reg THEN reg[k] ELSE CsvParser]
GetParserRegistry(reg, file_type) == reg

\* register_parser applied to each module-level registration in turn
RECURSIVE RegisterAll(_, _)
RegisterAll(reg, regs) ==
    IF regs = <<>> THEN reg
    ELSE RegisterAll(RegisterParserRegistry(reg, Head(regs).tag, Head(regs).cls),
                     Tail(regs))

\* No stream_excel_to_csv call has been made
ConvIdle == conv = [pc |-> "idle"]

\* No path has been dispatched on, no file parsed
DispatchIdle == dispatch = [path |-> <<>>, engine |-> "idle", strategy |-> "idle"]
CsvIdle == csv = [pc |-> "idle"]
XlIdle == xl = [pc |-> "idle"]

\* ParserFactory() followed by the four module-level register_parser calls
ModuleLoaded ==
    /\ parsers = RegisterAll(<<>>, InitialRegistrations)
    /\ regLog = InitialRegistrations
    /\ lastCall = [op |-> "init", tag |-> <<>>, ctor |-> "", outcome |-> "none",
                   variant |-> NoInstance,
                   before |-> RegisterAll(<<>>, InitialRegistrations)]

InitRegistry == ModuleLoaded /\ ConvIdle /\ DispatchIdle /\ CsvIdle /\ XlIdle

\* parser_factory.register_parser(file_type, parser_class)
register_parser(file_type, parser_class) ==
    /\ RegisterOutcome(parser_class) = "ok" => Len(regLog) < Len(InitialRegistrations) + MaxRegs
    /\ parsers' = RegisterParserRegistry(parsers, file_type, parser_class)
    /\ regLog' = IF RegisterOutcome(parser_class) = "ok"
                 THEN Append(regLog, [tag |-> file_type, cls |-> parser_class])
                 ELSE regLog
    /\ lastCall' = [op |-> "register_parser", tag |-> file_type, ctor |-> parser_class,
                    outcome |-> RegisterOutcome(parser_class),
                    variant |-> NoInstance, before |-> parsers]
    /\ UNCHANGED <<conv, dispatch, csv, xl>>

\* parser_factory.get_parser(file_type)
get_parser(file_type) ==
    /\ parsers' = GetParserRegistry(parsers, file_type)
    /\ regLog' = regLog
    /\ lastCall' = [op |-> "get_parser", tag |-> file_type, ctor |-> "",
                    outcome |-> GetParserResult(parsers, file_type).outcome,
                    variant |-> GetParserResult(parsers, file_type).variant,
                    before |-> parsers]
    /\ UNCHANGED <<conv, dispatch, csv, xl>>

NextRegistry ==
    \/ \E t \in Tags, c \in Constructors : register_parser(t, c)
    \/ \E t \in Tags : get_parser(t)

SpecRegistry == InitRegistry /\ [][NextRegistry]_vars

(***************************************************************************)
(* Claims about the registry                                               *)
(***************************************************************************)
\* Two tags differ at most in the letter case of their characters
CasePairs == {<<c, UpperOf[c]>> : c \in DOMAIN UpperOf}
SameLetters(s, t) ==
    /\ Len(s) = Len(t)
    /\ \A i \in 1..Len(s) :
          \/ s[i] = t[i]
          \/ <<s[i], t[i]>> \in CasePairs
          \/ <<t[i], s[i]>> \in CasePairs
          \/ \E l \in DOMAIN UpperOf : s[i] = UpperOf[l] /\ t[i] = UpperOf[l]

\* The positions of the registration log that registered a case variant of tag t
RegistrationsOf(t) == {i \in DOMAIN regLog : SameLetters(regLog[i].tag, t)}

\* The class handed over by the most recent registration of a case variant of t
MostRecent(t) ==
    regLog[CHOOSE i \in RegistrationsOf(t) : \A j \in RegistrationsOf(t) : j <= i].cls

\* C3: get_parser on a tag whose lowercase form has no mapping raises the
\* ValueError, constructs no parser instance and leaves the registry mapping
\* exactly as it was before the call.
C3_UnknownTagFails ==
    (lastCall.op = "get_parser" /\ Lower(lastCall.tag) \notin DOMAIN lastCall.before)
    => /\ lastCall.outcome = "ValueError"
       /\ lastCall.variant = NoInstance
       /\ parsers = lastCall.before

\* An unknown tag was resolved on a registry that callers have extended
C3_Witness ==
    /\ lastCall.op = "get_parser"
    /\ Lower(lastCall.tag) \notin DOMAIN lastCall.before
    /\ Len(regLog) > Len(InitialRegistrations)

\* C4: two tags that differ only in letter case resolve alike (both fail, or
\* both give a parser of the same variant), and a tag registered in any
\* letter case is found under every letter case.
C4_CaseInsensitive ==
    /\ \A s \in Tags, t \in Tags :
          SameLetters(s, t) => GetParserResult(parsers, s) = GetParserResult(parsers, t)
    /\ \A t \in Tags :
          RegistrationsOf(t) # {} => GetParserResult(parsers, t).outcome # "ValueError"

\* A tag registered in capitals was resolved in small letters
C4_Witness ==
    /\ lastCall.op = "get_parser"
    /\ lastCall.tag = <<"j", "s", "o", "n">>
    /\ lastCall.outcome = "ok"
    /\ \E i \in DOMAIN regLog : regLog[i].tag = <<"J", "S", "O", "N">>

C6_InvalidConstructorRejected ==
    (lastCall.op = "register_parser" /\ lastCall.ctor \notin Variants)
    => (lastCall.outcome = "ValueError" /\ parsers = lastCall.before)

(***************************************************************************)
(* Paths and extension dispatch                                            *)
(***************************************************************************)
\* The last position of character ch in p, 0 when absent (str.rfind + 1)
RFind(p, ch) ==
    IF \E k \in 1..Len(p) : p[k] = ch
    THEN CHOOSE k \in 1..Len(p) : p[k] = ch /\ \A j \in (k + 1)..Len(p) : p[j] # ch
    ELSE 0

\* os.path.splitext(p)[1]: the text from the last dot of the last path
\* component, empty when that component has no dot or only leading dots
SplitExt(p) ==
    LET sepIndex == RFind(p, "/")
        dotIndex == RFind(p, ".")
    IN  IF dotIndex > sepIndex /\ \E k \in (sepIndex + 1)..(dotIndex - 1) : p[k] # "."
        THEN SubSeq(p, dotIndex, Len(p))
        ELSE <<>>

\* The extensions read by openpyxl
ModernExts == { <<".", "x", "l", "s", "x">>, <<".", "x", "l", "s", "m">>,
                <<".", "x", "l", "t", "x">> }

\* stream_excel_to_csv: ext = os.path.splitext(file_path)[1].lower()
StreamStrategy(file_path) ==
    IF Lower(SplitExt(file_path)) \in ModernExts THEN "streaming" ELSE "fallback"

\* The characters str.strip() removes
Whitespace == {" ", "\t", "\n"}

\* str.strip(): leading and trailing whitespace removed
RECURSIVE LStrip(_)
LStrip(p) == IF p # <<>> /\ Head(p) \in Whitespace THEN LStrip(Tail(p)) ELSE p
RECURSIVE RStrip(_)
RStrip(p) ==
    IF p # <<>> /\ p[Len(p)] \in Whitespace THEN RStrip(SubSeq(p, 1, Len(p) - 1)) ELSE p
Strip(p) == RStrip(LStrip(p))

\* ExcelParser.parse: the reader chosen from the trimmed path's extension
ExcelEngine(file_path) ==
    IF Lower(SplitExt(Strip(file_path))) \in ModernExts THEN "openpyxl" ELSE "default"

\* Caller-supplied paths: padding, an optional directory, a stem, an extension
Pads == SeqsUpTo(Whitespace, MaxPad)
DispatchPaths ==
    { lead \o dir \o stem \o ext \o trail :
        lead \in Pads, trail \in Pads,
        dir \in { <<>>, <<"d", "/">> },
        stem \in { <<>>, <<"a">>, <<".">> },
        ext \in ModernExts \cup { <<>>, <<".", "X", "L", "S", "X">>, <<".", "X", "l", "s", "m">>,
                                  <<".", "x", "l", "s">>, <<".", "c", "s", "v">> } }

\* A caller holds a path
DispatchInit ==
    \E p \in DispatchPaths : dispatch = [path |-> p, engine |-> "none", strategy |-> "none"]

\* ExcelParser().parse(path) picks its reader
ExcelParserParse ==
    /\ dispatch.engine = "none"
    /\ dispatch' = [dispatch EXCEPT !.engine = ExcelEngine(dispatch.path)]
    /\ UNCHANGED <<parsers, regLog, lastCall, conv, csv, xl>>

\* stream_excel_to_csv(path, ...) picks its strategy
StreamDispatch ==
    /\ dispatch.strategy = "none"
    /\ dispatch' = [dispatch EXCEPT !.strategy = StreamStrategy(dispatch.path)]
    /\ UNCHANGED <<parsers, regLog, lastCall, conv, csv, xl>>

NextPath == ExcelParserParse \/ StreamDispatch

InitPath == ModuleLoaded /\ ConvIdle /\ DispatchInit /\ CsvIdle /\ XlIdle

SpecPath == InitPath /\ [][NextPath]_vars

\* C10 as stated: for every path, padded with whitespace or not and in any
\* letter case, ExcelParser.parse selects the openpyxl reader exactly when
\* stream_excel_to_csv selects the streaming strategy.
C10_SameClassification ==
    (dispatch.engine \notin {"none", "idle"} /\ dispatch.strategy \notin {"none", "idle"})
    => (dispatch.engine = "openpyxl" <=> dispatch.strategy = "streaming")

(***************************************************************************)
(* Streaming converter (stream_excel_to_csv)                               *)
(***************************************************************************)
\* A cell value: None, or a value named by the text csv.writer writes for it
NoneCell == "<None>"

\* The rows a read-only sheet can yield: no cells, all-None cells, mixed, full
RowSamples == { <<>>, <<NoneCell, NoneCell>>, <<NoneCell, "0">>, <<"a", "b">> }

\* The sheets: up to MaxRows rows
Sheets == SeqsUpTo(RowSamples, MaxRows)

\* Source paths: modern extensions in both letter cases and a legacy one
ConvPaths == { <<"a", ".", "x", "l", "s", "x">>, <<"a", ".", "X", "L", "S", "M">>,
               <<"a", ".", "x", "l", "s">> }

\* Where the environment makes the call fail: nowhere, opening the workbook,
\* opening the destination, reading row k, writing row k
Faults(rows) ==
    { [at |-> a, k |-> 0] : a \in {"none", "load", "open"} }
    \cup { [at |-> a, k |-> k] : a \in {"read", "write"}, k \in 1..Len(rows) }

\* csv.writer's text for a cell: None is written as the empty field
RenderCell(cell) == IF cell = NoneCell THEN "" ELSE cell
RenderRow(row) == [i \in 1..Len(row) |-> RenderCell(row[i])]

\* The row filter of the streaming loop: row and any(cell is not None ...)
RowIsTruthy(row) ==
    Len(row) > 0 /\ \E i \in 1..Len(row) : row[i] \notin {NoneCell, "0", ""}
RowIsWritten(row) ==
    Len(row) > 0 /\ \E i \in 1..Len(row) : row[i] # NoneCell

\* if logger: logger.info(msg)
LogInfo(c, msg) ==
    IF c.logger THEN [c EXCEPT !.msgs = Append(@, msg)] ELSE c

\* The state at entry of stream_excel_to_csv(file_path, csv_path, logger)
Entry(file_path, rows, fault, logger) ==
    [pc |-> "start", file_path |-> file_path, rows |-> rows, fault |-> fault,
     logger |-> logger, strategy |-> "none", wbOpen |-> FALSE, fOpen |-> FALSE,
     dest |-> <<>>, msgs |-> <<>>, ops |-> <<>>, i |-> 1, pending |-> "none",
     outcome |-> "none"]

\* An exception leaves the function
Raise(c, err) == [c EXCEPT !.pc = "raised", !.outcome = err]

\* Extension dispatch and the first progress message
StartStep(c) ==
    IF StreamStrategy(c.file_path) = "streaming"
    THEN [LogInfo(c, "Streaming Excel conversion (openpyxl)")
            EXCEPT !.strategy = "streaming", !.pc = "load_workbook"]
    ELSE [LogInfo(c, "Standard Excel conversion (pandas)")
            EXCEPT !.strategy = "fallback", !.pc = "read_excel"]

\* wb = openpyxl.load_workbook(...), before the try block
LoadWorkbook(c) ==
    IF c.fault.at = "load" THEN Raise(c, "LoadError")
    ELSE [c EXCEPT !.wbOpen = TRUE, !.ops = Append(@, "open_wb"), !.pc = "open_dest"]

\* sheet = wb.active; with open(csv_path, 'w', ...) as f: writer = csv.writer(f)
OpenDest(c) ==
    IF c.fault.at = "open"
    THEN [c EXCEPT !.pending = "OpenError", !.pc = "finally"]
    ELSE [c EXCEPT !.fOpen = TRUE, !.dest = <<>>, !.ops = Append(@, "open_dest"),
                   !.pc = "loop"]

\* One iteration of for row in sheet.values, or its end
LoopStep(c) ==
    IF c.i > Len(c.rows) THEN [c EXCEPT !.pc = "with_exit"]
    ELSE IF c.fault = [at |-> "read", k |-> c.i]
    THEN [c EXCEPT !.pending = "ReadError", !.pc = "with_exit"]
    ELSE IF ~RowIsWritten(c.rows[c.i]) THEN [c EXCEPT !.i = @ + 1]
    ELSE IF c.fault = [at |-> "write", k |-> c.i]
    THEN [c EXCEPT !.pending = "WriteError", !.pc = "with_exit"]
    ELSE [c EXCEPT !.dest = Append(@, RenderRow(c.rows[c.i])),
                   !.ops = Append(@, "write"), !.i = @ + 1]

\* Leaving the with block closes the destination, exception or not
WithExit(c) ==
    [c EXCEPT !.fOpen = FALSE, !.ops = Append(@, "close_dest"), !.pc = "finally"]

\* finally: wb.close(); gc.collect(), then the pending exception propagates
FinallyOnSuccessOnly(c) ==
    IF c.pending # "none" THEN Raise(c, c.pending)
    ELSE [c EXCEPT !.wbOpen = FALSE, !.ops = Append(@, "close_wb"), !.pc = "log_done"]
Finally(c) ==
    LET closed == [c EXCEPT !.wbOpen = FALSE, !.ops = Append(@, "close_wb")]
    IN  IF c.pending # "none" THEN Raise(closed, c.pending)
        ELSE [closed EXCEPT !.pc = "log_done"]

\* df = pd.read_excel(file_path): the whole sheet, by pandas' own handles
ReadExcel(c) ==
    IF c.fault.at \in {"load", "read"} THEN Raise(c, "LoadError")
    ELSE [c EXCEPT !.ops = Append(@, "read_excel"), !.pc = "to_csv"]

\* df.to_csv(csv_path, index=False, ...); del df; gc.collect()
ToCsv(c) ==
    IF c.fault.at = "open" THEN Raise(c, "OpenError")
    ELSE IF c.fault.at = "write"
    THEN Raise([c EXCEPT !.dest = [j \in 1..(c.fault.k - 1) |-> RenderRow(c.rows[j])],
                         !.ops = Append(@, "to_csv")], "WriteError")
    ELSE [c EXCEPT !.dest = [j \in 1..Len(c.rows) |-> RenderRow(c.rows[j])],
                   !.ops = Append(@, "to_csv"), !.pc = "log_done"]

\* The closing progress message, then return
LogDoneUnguarded(c) ==
    IF c.logger
    THEN [LogInfo(c, "Excel to CSV conversion completed")
            EXCEPT !.pc = "returned", !.outcome = "ok"]
    ELSE Raise(c, "AttributeError")
LogDone(c) ==
    [LogInfo(c, "Excel to CSV conversion completed")
       EXCEPT !.pc = "returned", !.outcome = "ok"]

Finished(c) == c.pc \in {"returned", "raised"}

\* The next statement of the call
Step(c) ==
    CASE c.pc = "start" -> StartStep(c)
      [] c.pc = "load_workbook" -> LoadWorkbook(c)
      [] c.pc = "open_dest" -> OpenDest(c)
      [] c.pc = "loop" -> LoopStep(c)
      [] c.pc = "with_exit" -> WithExit(c)
      [] c.pc = "finally" -> Finally(c)
      [] c.pc = "read_excel" -> ReadExcel(c)
      [] c.pc = "to_csv" -> ToCsv(c)
      [] c.pc = "log_done" -> LogDone(c)

\* The call run to its return or raise
RECURSIVE Run(_)
Run(c) == IF Finished(c) THEN c ELSE Run(Step(c))

\* A caller invokes stream_excel_to_csv
StreamCall ==
    /\ conv.pc = "idle"
    /\ \E file_path \in ConvPaths, rows \in Sheets, logger \in BOOLEAN :
         \E fault \in Faults(rows) :
            conv' = Entry(file_path, rows, fault, logger)
    /\ UNCHANGED <<parsers, regLog, lastCall, dispatch, csv, xl>>

\* The call executes its next statement
StreamStep ==
    /\ conv.pc # "idle"
    /\ ~Finished(conv)
    /\ conv' = Step(conv)
    /\ UNCHANGED <<parsers, regLog, lastCall, dispatch, csv, xl>>

NextStream == StreamCall \/ StreamStep

InitStream == ModuleLoaded /\ ConvIdle /\ DispatchIdle /\ CsvIdle /\ XlIdle

SpecStream == InitStream /\ [][NextStream]_vars

(***************************************************************************)
(* Claims about the streaming converter                                    *)
(***************************************************************************)
\* C1: when a call on a zipped-XML source has returned or raised, whatever
\* the point of failure, neither the workbook handle nor the destination
\* handle it opened is still open.
C1_HandlesReleased ==
    (Finished(conv) /\ conv.strategy = "streaming")
    => (~conv.wbOpen /\ ~conv.fOpen)

\* A call that failed while writing a row, after both handles were opened
C1_Witness ==
    /\ conv.pc = "raised"
    /\ conv.strategy = "streaming"
    /\ conv.outcome = "WriteError"
    /\ conv.ops = <<"open_wb", "open_dest", "write", "close_dest", "close_wb">>

\* A row with at least one non-null cell
Populated(row) == \E i \in DOMAIN row : row[i] # NoneCell

\* The populated rows of a sheet, in source order
RECURSIVE PopulatedRows(_)
PopulatedRows(rows) ==
    IF rows = <<>> THEN <<>>
    ELSE IF Populated(Head(rows)) THEN <<Head(rows)>> \o PopulatedRows(Tail(rows))
    ELSE PopulatedRows(Tail(rows))

\* C2: a successful streaming conversion writes exactly the rows that have at
\* least one non-null cell, one record per such row, in source order; rows
\* with no cells or only null cells are omitted.
C2_PopulatedRowsWritten ==
    (conv.pc = "returned" /\ conv.strategy = "streaming")
    => /\ Len(conv.dest) = Len(PopulatedRows(conv.rows))
       /\ Len(conv.dest) = Cardinality({i \in DOMAIN conv.rows : Populated(conv.rows[i])})
       /\ \A j \in DOMAIN conv.dest : conv.dest[j] = RenderRow(PopulatedRows(conv.rows)[j])

\* A sheet with an all-null row between two populated rows was converted
C2_Witness ==
    /\ conv.pc = "returned"
    /\ conv.strategy = "streaming"
    /\ Len(conv.rows) = 3
    /\ Populated(conv.rows[1]) /\ ~Populated(conv.rows[2]) /\ Populated(conv.rows[3])
    /\ conv.rows[2] # <<>>
    /\ Len(conv.dest) = 2

\* C9: the same call made with the logger present instead of absent (or absent
\* instead of present) takes the same branch, performs the same open/write/
\* close operations, writes the same records and ends the same way; without a
\* logger no message is emitted, with one only messages are added.
C9_LoggerIndependent ==
    Finished(conv)
    => LET other == Run(Entry(conv.file_path, conv.rows, conv.fault, ~conv.logger))
       IN  /\ other.pc = conv.pc
           /\ other.outcome = conv.outcome
           /\ other.strategy = conv.strategy
           /\ other.ops = conv.ops
           /\ other.dest = conv.dest
           /\ other.wbOpen = conv.wbOpen /\ other.fOpen = conv.fOpen
           /\ conv.logger => (other.msgs = <<>> /\ conv.msgs # <<>>)

\* A call without a logger ran to its return and wrote records
C9_Witness ==
    /\ conv.pc = "returned"
    /\ ~conv.logger
    /\ conv.msgs = <<>>
    /\ conv.dest # <<>>

(***************************************************************************)
(* CsvParser.parse                                                         *)
(***************************************************************************)
\* The keyword arguments of the read_csv call
TrueValues == {"true", "True", "TRUE", "1"}
FalseValues == {"false", "False", "FALSE", "0", ""}

\* Field texts of one column of the file: the listed tokens, a number that is
\* neither 0 nor 1, and a word
CsvTokens == TrueValues \cup FalseValues \cup {"7", "x"}

\* The file: a header "id,flag", the id column filled with 1, 2, ..., and the
\* flag column holding these field texts (an empty text is an empty field of
\* a two-field line, not a blank line)
CsvColumns == SeqsUpTo(CsvTokens, MaxCsvRows) \ {<<>>}

\* read_csv's missing-value markers (keep_default_na): the empty field is one
NaTokens == {""}

IntTokens == {"0", "1", "7"}

NaN == <<"nan", "NaN">>
BoolValue(b) == <<"bool", IF b THEN "True" ELSE "False">>

\* read_csv's type inference for one column: a field that is a missing-value
\* marker is NaN before any conversion is tried; then int64, float64, bool
\* (true_values, false_values and the words true/false), else object; a numpy
\* bool column cannot hold NaN, so a bool column with a NaN is an object column
ReadCsvColumn(tokens) ==
    LET n == Len(tokens)
        isNa(t) == t \in NaTokens
        hasNa == \E i \in 1..n : isNa(tokens[i])
        isTrue(t) == t \in TrueValues \cup {"true", "True", "TRUE"}
        isFalse(t) == t \in FalseValues \cup {"false", "False", "FALSE"}
    IN  IF \A i \in 1..n : isNa(tokens[i]) \/ tokens[i] \in IntTokens
        THEN [dtype |-> IF hasNa THEN "float64" ELSE "int64",
              values |-> [i \in 1..n |-> IF isNa(tokens[i]) THEN NaN
                                         ELSE <<"num", tokens[i]>>]]
        ELSE IF \A i \in 1..n : isNa(tokens[i]) \/ isTrue(tokens[i]) \/ isFalse(tokens[i])
        THEN [dtype |-> IF hasNa THEN "object" ELSE "bool",
              values |-> [i \in 1..n |-> IF isNa(tokens[i]) THEN NaN
                                         ELSE BoolValue(isTrue(tokens[i]))]]
        ELSE [dtype |-> "object",
              values |-> [i \in 1..n |-> IF isNa(tokens[i]) THEN NaN
                                         ELSE <<"str", tokens[i]>>]]

\* df.fillna({col: False for col in df.select_dtypes(include='bool').columns})
FillNaBool(col) ==
    IF col.dtype = "bool"
    THEN [col EXCEPT !.values = [i \in DOMAIN col.values |->
                                    IF col.values[i] = NaN THEN BoolValue(FALSE)
                                    ELSE col.values[i]]]
    ELSE col

\* The flag column of the frame CsvParser.parse returns
CsvParse(tokens) == FillNaBool(ReadCsvColumn(tokens))

\* A file is on disk
CsvInit == \E tokens \in CsvColumns : csv = [pc |-> "file", tokens |-> tokens]

\* CsvParser().parse(file_path)
CsvParserParse ==
    /\ csv.pc = "file"
    /\ csv' = [pc |-> "parsed", tokens |-> csv.tokens, out |-> CsvParse(csv.tokens)]
    /\ UNCHANGED <<parsers, regLog, lastCall, conv, dispatch, xl>>

NextCsv == CsvParserParse

InitCsv == ModuleLoaded /\ ConvIdle /\ DispatchIdle /\ CsvInit /\ XlIdle

SpecCsv == InitCsv /\ [][NextCsv]_vars

\* A column the claim calls boolean: every field is one of the listed tokens
\* and at least one is a true/false word
BooleanTokens(tokens) ==
    /\ \A i \in DOMAIN tokens : tokens[i] \in TrueValues \cup FalseValues
    /\ \E i \in DOMAIN tokens : tokens[i] \in (TrueValues \cup FalseValues) \ {"1", "0", ""}

\* C7 as stated: after CsvParser.parse every cell of a boolean column is true
\* or false, never null: true/True/TRUE/1 give true, false/False/FALSE/0 and
\* the empty string give false (["true", "", "FALSE", "1"] gives
\* [true, false, false, true]).
C7_BooleanColumnsCoerced ==
    csv.pc = "parsed"
    => /\ csv.out.dtype = "bool" => \A i \in DOMAIN csv.out.values : csv.out.values[i] # NaN
       /\ BooleanTokens(csv.tokens)
          => \A i \in DOMAIN csv.tokens :
                csv.out.values[i] = BoolValue(csv.tokens[i] \in TrueValues)

(***************************************************************************)
(* CsvToExcelConverterParser.parse                                         *)
(***************************************************************************)
\* illegal_xml_chars_re: the code points the character class matches
IllegalXmlCharAllControls(ch) ==
    \/ ch \in 0..31
    \/ ch \in 127..159
    \/ ch \in 64976..64991
    \/ ch \in {65534, 65535}
IllegalXmlChar(ch) ==
    \/ ch \in 0..8
    \/ ch \in {11, 12}
    \/ ch \in 14..31
    \/ ch \in 127..132
    \/ ch \in 134..159
    \/ ch \in 64976..64991
    \/ ch \in {65534, 65535}

\* A cell of the frame: text (its code points) or a non-text value
TextCell(chars) == [kind |-> "text", v |-> chars]
IntCell == [kind |-> "int", v |-> <<7>>]
NanCell == [kind |-> "float", v |-> <<>>]

\* re.sub('', s): the string without the characters the class matches
RECURSIVE RemoveMatches(_)
RemoveMatches(chars) ==
    IF chars = <<>> THEN <<>>
    ELSE IF IllegalXmlChar(Head(chars)) THEN RemoveMatches(Tail(chars))
    ELSE <<Head(chars)>> \o RemoveMatches(Tail(chars))

\* _sanitize_string(s)
SanitizeString(cell) ==
    IF cell.kind = "text" THEN TextCell(RemoveMatches(cell.v)) ELSE cell

\* df.applymap(_sanitize_string)
ApplyMap(table) ==
    [table EXCEPT !.rows = [r \in DOMAIN table.rows |->
                              [k \in DOMAIN table.rows[r] |->
                                  SanitizeString(table.rows[r][k])]]]

\* Code points at and around the ends of every range of the class
CodePoints == {0, 8, 9, 10, 11, 12, 13, 14, 31, 32, 65, 127, 132, 133, 134, 159, 160,
               64975, 64976, 64991, 64992, 65533, 65534, 65535}

\* The cells a file can hold: every text up to MaxStrLen, and non-text values
Cells == {TextCell(q) : q \in SeqsUpTo(CodePoints, MaxStrLen)} \cup {IntCell, NanCell}
SampleCells == {TextCell(<<65, 11, 66>>), IntCell, NanCell}

\* The frames read_csv returns: two columns, no row, one row or two rows
Tables ==
    { [columns |-> <<"name", "qty">>, rows |-> rows] :
        rows \in {<<>>}
              \cup { <<<<c, q>>>> : c \in Cells, q \in SampleCells }
              \cup { << <<c, q>>, <<TextCell(<<8>>), IntCell>> >> :
                        c \in Cells, q \in SampleCells } }

\* A file has been read
XlInit == \E t \in Tables : xl = [pc |-> "read", table |-> t]

\* CsvToExcelConverterParser().parse(file_path): sanitize, write, return
CsvToExcelParse ==
    /\ xl.pc = "read"
    /\ xl' = [pc |-> "written", table |-> xl.table, written |-> ApplyMap(xl.table)]
    /\ UNCHANGED <<parsers, regLog, lastCall, conv, dispatch, csv>>

NextXl == CsvToExcelParse

InitXl == ModuleLoaded /\ ConvIdle /\ DispatchIdle /\ CsvIdle /\ XlInit

SpecSanitize == InitXl /\ [][NextXl]_vars

\* The illegal-XML ranges as the specification lists them
SpecIllegalRanges ==
    (0..8) \cup (11..12) \cup (14..31) \cup (127..132) \cup (134..159)
    \cup (64976..64991) \cup {65534} \cup {65535}

\* chars with the characters of the illegal ranges dropped, the rest in order
Kept(chars) == SelectSeq(chars, LAMBDA ch : ch \notin SpecIllegalRanges)

\* C8: the table written (and returned) has the rows and columns of the table
\* read; a text cell is the source cell without exactly its illegal
\* characters, so none is left; a non-text cell is unchanged; sanitizing the
\* written cell again changes nothing.
C8_SanitizedTable ==
    xl.pc = "written"
    => /\ xl.written.columns = xl.table.columns
       /\ Len(xl.written.rows) = Len(xl.table.rows)
       /\ \A r \in DOMAIN xl.table.rows :
            /\ Len(xl.written.rows[r]) = Len(xl.table.rows[r])
            /\ \A k \in DOMAIN xl.table.rows[r] :
                 LET src == xl.table.rows[r][k]
                     out == xl.written.rows[r][k]
                 IN  /\ src.kind = "text"
                        => /\ out = TextCell(Kept(src.v))
                           /\ \A i \in DOMAIN out.v : out.v[i] \notin SpecIllegalRanges
                     /\ src.kind # "text" => out = src
                     /\ SanitizeString(out) = out

\* A text cell mixing legal and illegal characters was written beside a number
C8_Witness ==
    /\ xl.pc = "written"
    /\ Len(xl.table.rows) = 2
    /\ xl.table.rows[1][1] = TextCell(<<133, 134>>)
    /\ xl.written.rows[1][1] = TextCell(<<133>>)
    /\ xl.table.rows[1][2] = IntCell
    /\ xl.written.rows[1][2] = IntCell

====
